---- MODULE Spec2Model ----
(***************************************************************************)
(* A model of the polarized-light calculation package: Layer and           *)
(* MultiLayerModel (MultiLayerModel.py), the script appication.py and the  *)
(* effective-medium function ema (EMA_calculate.py).                       *)
(*                                                                         *)
(* Numbers are exact complex rationals (re + i*im)/den; a value that IEEE  *)
(* arithmetic makes Inf or NaN is the single value NonFinite.              *)
(***************************************************************************)
EXTENDS Integers, Sequences, FiniteSets, TLC

VARIABLES heap, lists, models, result

vars == <<heap, lists, models, result>>

(***************************************************************************)
(* Bounds of the model.                                                    *)
(***************************************************************************)
MaxNK == 2
FaDen == 2
MaxHeap == 5
MaxIndex == 3
MaxWlLen == 2
MaxEvalLayers == 2
MaxRi == 1

----------------------------------------------------------------------------
(***************************************************************************)
(* Exact complex arithmetic.                                               *)
(***************************************************************************)
Abs(x) == IF x < 0 THEN -x ELSE x

RECURSIVE GCD(_, _)
GCD(a, b) == IF b = 0 THEN a ELSE GCD(b, a % b)

Cx(re, im, den) ==
  LET s == IF den < 0 THEN -1 ELSE 1
      g == GCD(GCD(Abs(re), Abs(im)), Abs(den))
  IN  [re |-> (s * re) \div g, im |-> (s * im) \div g, den |-> Abs(den) \div g,
       fin |-> TRUE]

NonFinite == [re |-> 0, im |-> 0, den |-> 0, fin |-> FALSE]

CInt(n) == Cx(n, 0, 1)

CAdd(a, b) ==
  IF ~a.fin \/ ~b.fin THEN NonFinite
  ELSE Cx(a.re * b.den + b.re * a.den, a.im * b.den + b.im * a.den, a.den * b.den)

CNeg(a) == IF ~a.fin THEN NonFinite ELSE Cx(-a.re, -a.im, a.den)

CSub(a, b) == CAdd(a, CNeg(b))

CMul(a, b) ==
  IF ~a.fin \/ ~b.fin THEN NonFinite
  ELSE Cx(a.re * b.re - a.im * b.im, a.re * b.im + a.im * b.re, a.den * b.den)

CIsZero(a) == a.fin /\ a.re = 0 /\ a.im = 0

\* a / b for a finite divisor b; a zero divisor gives Inf or NaN.
CDiv(a, b) ==
  IF ~a.fin \/ ~b.fin \/ CIsZero(b) THEN NonFinite
  ELSE LET n2 == b.re * b.re + b.im * b.im
       IN  Cx((a.re * b.re + a.im * b.im) * b.den,
              (a.im * b.re - a.re * b.im) * b.den,
              a.den * n2)

\* floor of the square root of a natural number, by bisection (46340 is the
\* largest root of a 32-bit integer)
RECURSIVE ISqrtIn(_, _, _)
ISqrtIn(n, lo, hi) ==
  IF lo >= hi THEN lo
  ELSE LET mid == (lo + hi + 1) \div 2
       IN  IF mid * mid <= n THEN ISqrtIn(n, mid, hi) ELSE ISqrtIn(n, lo, mid - 1)

ISqrt(n) == ISqrtIn(n, 0, IF n < 46340 THEN n ELSE 46340)

IsSquare(n) == n >= 0 /\ ISqrt(n) * ISqrt(n) = n

(***************************************************************************)
(* numpy.sqrt of a complex number: the principal branch, real part >= 0.   *)
(* On the negative real axis the sign of the (zero) imaginary part of the  *)
(* float decides between +i*b and -i*b; cut (1 or -1) is that sign.        *)
(* The result is [exact |-> TRUE, val |-> w] when the root w is a complex  *)
(* rational and [exact |-> FALSE, val |-> z] (the root of z, which no      *)
(* complex rational equals) otherwise.                                     *)
(***************************************************************************)
CSqrt(z, cut) ==
  LET q == IF IsSquare(z.den) THEN ISqrt(z.den) ELSE z.den
      X == z.re * ((q * q) \div z.den)
      Y == z.im * ((q * q) \div z.den)
      m == X * X + Y * Y
      s == ISqrt(m)
      a2 == (s + X) \div 2
      b2 == (s - X) \div 2
      a == ISqrt(a2)
      b == ISqrt(b2)
      sgn == IF Y > 0 THEN 1 ELSE IF Y < 0 THEN -1 ELSE IF X < 0 THEN cut ELSE 1
  IN  IF /\ s * s = m
         /\ (s + X) % 2 = 0
         /\ a * a = a2
         /\ b * b = b2
      THEN [exact |-> TRUE, val |-> Cx(a, sgn * b, q)]
      ELSE [exact |-> FALSE, val |-> z]

----------------------------------------------------------------------------
(***************************************************************************)
(* EMA_calculate.py                                                        *)
(***************************************************************************)
\* The complex refractive index N = n - ik.
RefIndex(n, k) == Cx(n, -k, 1)

\* -ea + 2*eb + 3*ea*fa - 3*eb*fa
emaLinear(ea, eb, fa) ==
  CSub(CAdd(CAdd(CNeg(ea), CMul(CInt(2), eb)), CMul(CMul(CInt(3), ea), fa)),
       CMul(CMul(CInt(3), eb), fa))

\* 8*ea*eb + (-ea + 2*eb + 3*ea*fa - 3*eb*fa)**2
emaRadicand(ea, eb, fa) ==
  CAdd(CMul(CMul(CInt(8), ea), eb), CMul(emaLinear(ea, eb, fa), emaLinear(ea, eb, fa)))

\* ema(Na, Nb, fa): [kind, val]; kind "exact": the value is val; "root": the
\* value is the principal square root of val (no complex rational);
\* "nested": the inner square root, of val, is no complex rational.
ema(Na, Nb, fa, cut1, cut2) ==
  LET ea == CMul(Na, Na)
      eb == CMul(Nb, Nb)
      inner == CSqrt(emaRadicand(ea, eb, fa), cut1)
      e == CMul(Cx(1, 0, 4), CAdd(emaLinear(ea, eb, fa), inner.val))
      N == CSqrt(e, cut2)
  IN  IF ~inner.exact THEN [kind |-> "nested", val |-> inner.val]
      ELSE IF ~N.exact THEN [kind |-> "root", val |-> e]
      ELSE [kind |-> "exact", val |-> N.val]

NoResult == [op |-> "none"]

Indices == {RefIndex(n, k) : n \in 0..MaxNK, k \in 0..MaxNK}
Fractions == {Cx(j, 0, FaDen) : j \in 0..FaDen}

\* A call ema(Na, Nb, fa) returns.
CallEma ==
  /\ result.op = "ema_call"
  /\ \E cut1 \in {1, -1}, cut2 \in {1, -1} :
       result' = [op |-> "ema", Na |-> result.Na, Nb |-> result.Nb, fa |-> result.fa,
                  N |-> ema(result.Na, result.Nb, result.fa, cut1, cut2)]
  /\ UNCHANGED <<heap, lists, models>>

\* The arguments of a call of ema: two indices n - ik and a fraction in [0, 1].
InitEMA ==
  /\ heap = <<>>
  /\ lists = <<>>
  /\ models = <<>>
  /\ result \in {[op |-> "ema_call", Na |-> Na, Nb |-> Nb, fa |-> fa] :
                  Na \in Indices, Nb \in Indices, fa \in Fractions}

NextEMA == CallEma

SpecEMA == InitEMA /\ [][NextEMA]_vars

\* C9: mixing a medium with itself returns that medium: ema(Na, Na, fa) = Na
\* for every Na = n - ik with n, k >= 0 and every fa in [0, 1].
C9_SelfMixReturnsMedium ==
  (result.op = "ema" /\ result.Na = result.Nb)
    => (result.N.kind = "exact" /\ result.N.val = result.Na)

----------------------------------------------------------------------------
(***************************************************************************)
(* MultiLayerModel.py: Layer and MultiLayerModel.                          *)
(*                                                                         *)
(* heap is the sequence of Layer objects created so far, lists the         *)
(* sequence of Python list objects (each a sequence of positions of heap), *)
(* models the MultiLayerModel objects whose construction returned.  An     *)
(* object is named by its position; a model's layers is the position of a  *)
(* list object, as self.layers is a reference.                             *)
(***************************************************************************)
RECURSIVE Dec(_)
\* '%d' % n for a natural number n: its decimal digits
Dec(n) ==
  LET digit == <<"0", "1", "2", "3", "4", "5", "6", "7", "8", "9">>
  IN  IF n < 10 THEN <<digit[n + 1]>> ELSE Append(Dec(n \div 10), digit[(n % 10) + 1])

\* A naming that leaves the layer index out of the name
SymbolWithoutIndex(prefix, layer_index) == <<prefix>>

\* sym.symbols names a symbol; two symbols of one name are one symbol.
Symbol(prefix, layer_index) == <<prefix>> \o Dec(layer_index)

\* Layer.__init__; layer_index, which the object does not keep, is recorded
\* for the statements about it.
Layer(layer_index, thickness, refraction_indices) ==
  [layer_index |-> layer_index,
   thickness |-> thickness, refraction_indices |-> refraction_indices,
   d |-> Symbol("d", layer_index), ri |-> Symbol("ri", layer_index)]

\* get_I: the interface matrix 1/t*[[1, r], [r, 1]] of the symbols lp.ri, lc.ri
get_I(lp, lc) == [op |-> "I", a |-> lp.ri, b |-> lc.ri]

\* get_L: the matrix diag(exp(ib), exp(-ib)), ib = 2*pi*l.d*l.ri/wl*I
get_L(l) == [op |-> "L", a |-> l.d, b |-> l.ri]

\* np.dot(F, scatter_matrix): the factor multiplied on the left
DotOnTheLeft(scatter_matrix, F) == <<F>> \o scatter_matrix

\* np.dot(scatter_matrix, F): the product, as the sequence of its factors
Dot(scatter_matrix, F) == Append(scatter_matrix, F)

\* the element i of a Python list (0-based)
At(list, i) == list[i + 1]

RECURSIVE ComposeLoop(_, _, _)
\* for i in range(1, len(self.layers)-1), from i on; L is the list of Layers
ComposeLoop(L, i, scatter_matrix) ==
  IF i >= Len(L) - 1 THEN scatter_matrix
  ELSE ComposeLoop(L, i + 1,
         Dot(Dot(scatter_matrix, get_L(At(L, i))), get_I(At(L, i), At(L, i + 1))))

\* wl = sym.symbols('wl')
WlSymbol == <<"wl">>

\* wl, then d and ri of every layer: the pair in the other order
AllSymbolVariableThicknessFirst(L) ==
  <<WlSymbol>> \o
  [j \in 1..(2 * Len(L)) |->
     IF j % 2 = 1 THEN L[(j + 1) \div 2].d ELSE L[j \div 2].ri]

\* all_symbol_variable: wl, then ri and d of every layer
AllSymbolVariable(L) ==
  <<WlSymbol>> \o
  [j \in 1..(2 * Len(L)) |->
     IF j % 2 = 1 THEN L[(j + 1) \div 2].ri ELSE L[j \div 2].d]

\* sym.lambdify compiles "def f(<arguments>)": Python refuses an argument
\* name that appears twice.
Lambdifiable(args) == \A i, j \in 1..Len(args) : args[i] = args[j] => i = j

\* sym.lambdify(all_symbol_variable, self.S[row, col], "numpy"): a function of
\* the arguments args that evaluates the entry [row, col] of S
Lambdify(args, S, row, col) == [args |-> args, S |-> S, row |-> row, col |-> col]

\* calculate_each_incident_angle: one cosine per layer after the first (of
\* the symbols self.layers[0].ri and l.ri)
IncidentAngles(L, incident_angle) ==
  <<incident_angle>> \o [j \in 1..(Len(L) - 1) |-> <<L[1].ri, L[j + 1].ri>>]

\* A get_S that, on a stack of the air layer alone, returns with an empty
\* product instead of raising
get_S_WithoutInterface(L, incident_angle) ==
  LET scatter_matrix == IF Len(L) < 2 THEN <<>>
                        ELSE ComposeLoop(L, 1, <<get_I(At(L, 0), At(L, 1))>>)
      all_symbol_variable == AllSymbolVariable(L)
  IN  [status |-> IF Lambdifiable(all_symbol_variable) THEN "returned" ELSE "SyntaxError",
       S |-> scatter_matrix, args |-> all_symbol_variable,
       incident_angles |-> IncidentAngles(L, incident_angle)]

\* get_S, on the Layers L of self.layers: self.layers[1] of a list of one
\* element raises IndexError, a repeated argument name SyntaxError.
get_S(L, incident_angle) ==
  IF Len(L) < 2 THEN [status |-> "IndexError", S |-> <<>>, args |-> <<>>,
                      incident_angles |-> <<>>]
  ELSE LET scatter_matrix == ComposeLoop(L, 1, <<get_I(At(L, 0), At(L, 1))>>)
           all_symbol_variable == AllSymbolVariable(L)
       IN  [status |-> IF Lambdifiable(all_symbol_variable) THEN "returned"
                       ELSE "SyntaxError",
            S |-> scatter_matrix, args |-> all_symbol_variable,
            incident_angles |-> IncidentAngles(L, incident_angle)]

None == 0

\* "layers or []": a list is true when it is not empty
ListTruth(ls, layers) == layers # None /\ Len(ls[layers]) > 0

\* "wavelength or np.array([0])": the truth value of an array of two or more
\* elements raises ValueError, that of one element is the element's, that of
\* no element is False (numpy before 2.2) or raises (numpy from 2.2).
ArrayTruth(a, numpy22) ==
  IF Len(a) > 1 THEN "ValueError"
  ELSE IF Len(a) = 1 THEN (IF a[1] # 0 THEN "True" ELSE "False")
  ELSE IF numpy22 THEN "ValueError" ELSE "False"

WavelengthOrDefault(wavelength, numpy22) ==
  IF ~wavelength.given THEN [status |-> "ok", value |-> <<0>>]
  ELSE LET t == ArrayTruth(wavelength.a, numpy22)
       IN  IF t = "ValueError" THEN [status |-> "ValueError", value |-> <<>>]
           ELSE IF t = "True" THEN [status |-> "ok", value |-> wavelength.a]
           ELSE [status |-> "ok", value |-> <<0>>]

\* self.layers.insert(0, l_air)
Insert0(list, x) == <<x>> \o list

\* MultiLayerModel.__init__(incident_angle, layers, wavelength) on the heap h
\* and the list objects ls: the heap and lists it leaves, how it ended and,
\* when it returned, the model.  The truth value of wavelength is taken
\* before get_S runs.  With the model's fields are recorded the air layer
\* this call created (air) and the contents of the list it was handed, as
\* they were at the call (given).
MultiLayerModelInit(h, ls, incident_angle, layers, wavelength, numpy22) ==
  LET truth == ListTruth(ls, layers)
      ls1 == IF truth THEN ls ELSE Append(ls, <<>>)
      self_layers == IF truth THEN layers ELSE Len(ls1)
      h1 == Append(h, Layer(0, 0, 1))
      l_air == Len(h1)
      ls2 == [ls1 EXCEPT ![self_layers] = Insert0(@, l_air)]
      wl == WavelengthOrDefault(wavelength, numpy22)
      L == [j \in 1..Len(ls2[self_layers]) |-> h1[ls2[self_layers][j]]]
      gs == get_S(L, incident_angle)
      status == IF wl.status # "ok" THEN wl.status ELSE gs.status
  IN  [heap |-> h1, lists |-> ls2, status |-> status,
       model |-> [layers |-> self_layers, wavelength |-> wl.value,
                  incident_angles |-> gs.incident_angles,
                  S |-> gs.S,
                  S11 |-> Lambdify(gs.args, gs.S, 0, 0),
                  S12 |-> Lambdify(gs.args, gs.S, 0, 1),
                  S21 |-> Lambdify(gs.args, gs.S, 1, 0),
                  S22 |-> Lambdify(gs.args, gs.S, 1, 1),
                  air |-> l_air,
                  given |-> IF layers = None THEN <<>> ELSE ls[layers]]]

\* The list object the caller fills with its Layers and hands to
\* MultiLayerModel.
CallerList == 1

\* The caller appends a new Layer to its list, before it builds any model:
\* lst.append(Layer(layer_index)).
AppendLayer ==
  \E layer_index \in 0..MaxIndex :
    /\ result.op = "none"
    /\ Len(heap) < MaxHeap
    /\ heap' = Append(heap, Layer(layer_index, 0, 0))
    /\ lists' = [lists EXCEPT ![CallerList] = Append(@, Len(heap) + 1)]
    /\ UNCHANGED <<models, result>>

SeqsUpTo(S, n) == UNION {[1..k -> S] : k \in 0..n}

NoWavelength == [given |-> FALSE, a |-> <<>>]

Wavelengths ==
  {NoWavelength} \cup {[given |-> TRUE, a |-> a] : a \in SeqsUpTo({0, 500}, MaxWlLen)}

\* A call of MultiLayerModel with list object number passed (None: no list)
\* of the list objects ls: form "positional" is MultiLayerModel(passed), where
\* the list is bound to incident_angle, form "keyword"
\* MultiLayerModel(layers=passed, wavelength=w).
Call(ls, form, passed, wavelength, numpy22) ==
  LET r == MultiLayerModelInit(heap, ls,
             IF form = "positional" THEN passed ELSE 0,
             IF form = "positional" THEN None ELSE passed,
             wavelength, numpy22)
  IN  /\ Len(heap) < MaxHeap
      /\ heap' = r.heap
      /\ lists' = r.lists
      /\ models' = IF r.status = "returned" THEN Append(models, r.model) ELSE models
      /\ result' = [op |-> "MultiLayerModel", form |-> form, passed |-> passed,
                    given |-> IF passed = None THEN <<>> ELSE ls[passed],
                    wavelength |-> wavelength, status |-> r.status,
                    model |-> IF r.status = "returned" THEN Len(models) + 1 ELSE 0]

\* MultiLayerModel(lst), MultiLayerModel(layers=lst), MultiLayerModel(),
\* MultiLayerModel(layers=None)
Construct ==
  \E form \in {"positional", "keyword"}, passed \in {None, CallerList} :
    Call(lists, form, passed, NoWavelength, FALSE)

\* The Layers the caller created: those of the heap that no constructor made
\* (the air layers are the ones AppendLayer never makes: refraction index 1).
CallerLayers == SelectSeq([j \in 1..Len(heap) |-> j],
                          LAMBDA j : heap[j].refraction_indices = 0)

\* MultiLayerModel(layers=[l1, ..., ln]) and MultiLayerModel([l1, ..., ln]) with
\* a new list of the caller's Layers
ConstructFromNewList ==
  \E form \in {"positional", "keyword"} :
    Call(Append(lists, CallerLayers), form, Len(lists) + 1, NoWavelength, FALSE)

\* MultiLayerModel(layers=lst, wavelength=w)
ConstructWithWavelength ==
  \E wavelength \in Wavelengths, numpy22 \in BOOLEAN :
    Call(lists, "keyword", CallerList, wavelength, numpy22)

\* The caller has an empty list.
Init ==
  /\ heap = <<>>
  /\ lists = <<<<>>>>
  /\ models = <<>>
  /\ result = NoResult

Next == AppendLayer \/ Construct \/ ConstructFromNewList

Spec == Init /\ [][Next]_vars

\* The caller has a list of Layer(1), ..., Layer(n).
InitWl ==
  \E n \in 1..(MaxHeap - 1) :
    /\ heap = [j \in 1..n |-> Layer(j, 0, 0)]
    /\ lists = <<[j \in 1..n |-> j]>>
    /\ models = <<>>
    /\ result = NoResult

NextWl == ConstructWithWavelength

SpecWl == InitWl /\ [][NextWl]_vars

----------------------------------------------------------------------------
(***************************************************************************)
(* Numeric values of the expressions: what get_I returns for given values  *)
(* of the two ri, and what a compiled S11..S22 returns for its arguments.  *)
(* A matrix is <<m11, m12, m21, m22>>.                                     *)
(***************************************************************************)
MatMul(A, B) ==
  LET a == A
      b == B
  IN  <<CAdd(CMul(a[1], b[1]), CMul(a[2], b[3])), CAdd(CMul(a[1], b[2]), CMul(a[2], b[4])),
        CAdd(CMul(a[3], b[1]), CMul(a[4], b[3])), CAdd(CMul(a[3], b[2]), CMul(a[4], b[4]))>>

\* An interface matrix whose t is the Fresnel denominator lp.ri + lc.ri alone
InterfaceValueSumOnly(p, c, same) ==
  LET t == CAdd(p, c)
      r == IF same THEN CInt(0) ELSE CDiv(CSub(p, c), CAdd(p, c))
      it == CDiv(CInt(1), t)
      off == IF same THEN CInt(0) ELSE CMul(it, r)
  IN  [t |-> t, r |-> r, M |-> <<it, off, off, it>>]

\* get_I at lp.ri = p, lc.ri = c; same: lp.ri and lc.ri are one symbol, and
\* then sympy has made lp.ri - lc.ri the number 0
InterfaceValue(p, c, same) ==
  LET t == CMul(CMul(CInt(2), p), CAdd(p, c))
      r == IF same THEN CInt(0) ELSE CDiv(CSub(p, c), CAdd(p, c))
      it == CDiv(CInt(1), t)
      off == IF same THEN CInt(0) ELSE CMul(it, r)
  IN  [t |-> t, r |-> r, M |-> <<it, off, off, it>>]

\* exp(i*pi*q/2) for an integer q
ExpQuarter(q) ==
  LET k == q % 4
  IN  IF k = 0 THEN Cx(1, 0, 1) ELSE IF k = 1 THEN Cx(0, 1, 1)
      ELSE IF k = 2 THEN Cx(-1, 0, 1) ELSE Cx(0, -1, 1)

\* get_L at l.d = d, l.ri = ri and wl, for integers with 4*d*ri a multiple of
\* wl: ib = 2*pi*d*ri/wl*I is the quarter turn i*pi/2 taken 4*d*ri/wl times
PropagationValue(d, ri, wl) ==
  IF wl = 0 THEN <<NonFinite, CInt(0), CInt(0), NonFinite>>
  ELSE LET q == (4 * d * ri) \div wl
       IN  <<ExpQuarter(q), CInt(0), CInt(0), ExpQuarter(-q)>>

\* The value bound to the parameter sym in a call f(vals)
Bound(f, vals, sym) == vals[CHOOSE i \in 1..Len(f.args) : f.args[i] = sym]

FactorValue(f, vals, F) ==
  IF F.op = "I"
  THEN InterfaceValue(CInt(Bound(f, vals, F.a)), CInt(Bound(f, vals, F.b)), F.a = F.b).M
  ELSE PropagationValue(Bound(f, vals, F.a), Bound(f, vals, F.b), Bound(f, vals, WlSymbol))

RECURSIVE ProductValue(_, _, _)
\* the product of the first n factors of f.S
ProductValue(f, vals, n) ==
  IF n = 1 THEN FactorValue(f, vals, f.S[1])
  ELSE MatMul(ProductValue(f, vals, n - 1), FactorValue(f, vals, f.S[n]))

\* A call f(*vals) of a compiled function.  Python numbers raise
\* ZeroDivisionError on a division by zero; numpy arrays give Inf or NaN.
CompiledCall(f, vals, mode) ==
  LET v == ProductValue(f, vals, Len(f.S))[2 * f.row + f.col + 1]
  IN  IF ~v.fin /\ mode = "python" THEN [status |-> "ZeroDivisionError", value |-> NonFinite]
      ELSE [status |-> "returned", value |-> v]

RiValues == (-MaxRi)..MaxRi
DValues == {0, 1}
WlValues == {2, 4}

\* S11(*vals), S12(*vals), S21(*vals), S22(*vals) of the model, once
CallS ==
  /\ result.op = "MultiLayerModel"
  /\ result.status = "returned"
  /\ LET m == models[result.model]
         n == Len(lists[m.layers])
     IN  \E wl \in WlValues, ri \in [1..n -> RiValues], d \in [1..n -> DValues],
            mode \in {"python", "numpy"} :
           LET vals == <<wl>> \o [j \in 1..(2 * n) |->
                           IF j % 2 = 1 THEN ri[(j + 1) \div 2] ELSE d[j \div 2]]
           IN  result' = [op |-> "S", model |-> result.model, vals |-> vals,
                          ri |-> ri, mode |-> mode,
                          S11 |-> CompiledCall(m.S11, vals, mode),
                          S12 |-> CompiledCall(m.S12, vals, mode),
                          S21 |-> CompiledCall(m.S21, vals, mode),
                          S22 |-> CompiledCall(m.S22, vals, mode)]
  /\ UNCHANGED <<heap, lists, models>>

ComplexValues == {Cx(n, -k, 1) : n \in (-MaxRi)..MaxRi, k \in 0..MaxRi} \cup {Cx(1, 0, 2)}

\* MultiLayerModel.get_I(lp, lc) of two Layers of the stack, at values of
\* their ri, once
CallGetI ==
  /\ result.op = "MultiLayerModel"
  /\ result.status = "returned"
  /\ \E lp \in 1..Len(heap), lc \in 1..Len(heap), p \in ComplexValues, c \in ComplexValues :
       /\ heap[lp].ri = heap[lc].ri => p = c
       /\ result' = [op |-> "get_I", lp |-> lp, lc |-> lc, p |-> p, c |-> c,
                     I |-> InterfaceValue(p, c, get_I(heap[lp], heap[lc]).a
                                                 = get_I(heap[lp], heap[lc]).b)]
  /\ UNCHANGED <<heap, lists, models>>

\* A model has been built from Layer(1), ..., Layer(n).
InitEval ==
  \E n \in 1..MaxEvalLayers :
    LET r == MultiLayerModelInit([j \in 1..n |-> Layer(j, 0, 0)], <<[j \in 1..n |-> j]>>,
                                 0, CallerList, NoWavelength, FALSE)
    IN  /\ heap = r.heap
        /\ lists = r.lists
        /\ models = <<r.model>>
        /\ result = [op |-> "MultiLayerModel", form |-> "keyword", passed |-> CallerList,
                     given |-> [j \in 1..n |-> j], wavelength |-> NoWavelength,
                     status |-> r.status, model |-> 1]

NextEval == CallS

SpecEval == InitEval /\ [][NextEval]_vars

NextGetI == CallGetI

SpecGetI == InitEval /\ [][NextGetI]_vars

----------------------------------------------------------------------------
(***************************************************************************)
(* The stack a model was built from: the air layer it created, then the    *)
(* Layers of the list it was handed, as they were at the call.             *)
(***************************************************************************)
BuiltFrom(m) == [j \in 1..(Len(m.given) + 1) |->
                   IF j = 1 THEN heap[m.air] ELSE heap[m.given[j - 1]]]

Compiled(m) == {m.S11, m.S12, m.S21, m.S22}

\* The factor at place j (from 1) of I(0,1), L(1), I(1,2), ..., I(N-1,N)
FactorAt(Lay, j) ==
  IF j % 2 = 1 THEN get_I(Lay[(j + 1) \div 2], Lay[(j + 1) \div 2 + 1])
  ELSE get_L(Lay[j \div 2 + 1])

\* C1: a model built from N >= 1 user layers has S = I(0,1) L(1) I(1,2) ...
\* L(N-1) I(N-1,N), composed left to right: N interface factors and N-1
\* propagation factors, none for air and none for layer N; for N = 1 the
\* single factor I(0,1).
C1_FactorSequence ==
  \A k \in 1..Len(models) :
    LET m == models[k]
        N == Len(m.given)
        Lay == BuiltFrom(m)
    IN  /\ N >= 1
        /\ Len(m.S) = 2 * N - 1
        /\ \A j \in 1..Len(m.S) : m.S[j] = FactorAt(Lay, j)
        /\ Cardinality({j \in 1..Len(m.S) : m.S[j].op = "I"}) = N
        /\ Cardinality({j \in 1..Len(m.S) : m.S[j].op = "L"}) = N - 1
        /\ (N = 1 => m.S = <<get_I(Lay[1], Lay[2])>>)

C1_Witness ==
  \E k \in 1..Len(models) :
    /\ Len(models[k].given) >= 2
    /\ models[k].S[2].op = "L"
    /\ models[k].S[Len(models[k].S)].op = "I"

\* The list holds Layers the caller numbered from 1, each number once.
FreshUserLayers(given) ==
  /\ \A i \in 1..Len(given) : heap[given[i]].layer_index >= 1
  /\ \A i, j \in 1..Len(given) :
       heap[given[i]].layer_index = heap[given[j]].layer_index => i = j

\* C2: MultiLayerModel([l1, ..., ln]), the list as the sole positional
\* argument, n >= 1, succeeds and yields a model whose layers are the air
\* layer followed by l1..ln and whose S11..S22 take 1 + 2(n+1) arguments.
C2_PositionalListBuilds ==
  (/\ result.op = "MultiLayerModel"
   /\ result.form = "positional"
   /\ result.passed # None
   /\ Len(result.given) >= 1
   /\ FreshUserLayers(result.given))
    => /\ result.status = "returned"
       /\ result.model # 0
       /\ LET m == models[result.model]
          IN  /\ Len(lists[m.layers]) = Len(result.given) + 1
              /\ lists[m.layers][1] = m.air
              /\ \A j \in 1..Len(result.given) :
                   lists[m.layers][j + 1] = result.given[j]
              /\ Len(m.S) >= 1
              /\ \A f \in Compiled(m) : Len(f.args) = 1 + 2 * (Len(result.given) + 1)

\* C3: in a model built from N >= 1 user layers each of S11, S12, S21, S22
\* has the parameters wl, then (ri, d) of every layer 0..N in stack order:
\* 2N + 3 parameters, none of them twice.
C3_ParameterList ==
  \A k \in 1..Len(models) :
    LET m == models[k]
        N == Len(m.given)
        Lay == BuiltFrom(m)
    IN  \A f \in Compiled(m) :
          /\ Len(f.args) = 2 * N + 3
          /\ f.args[1] = WlSymbol
          /\ \A j \in 0..N : /\ f.args[2 + 2 * j] = Lay[j + 1].ri
                             /\ f.args[3 + 2 * j] = Lay[j + 1].d
          /\ \A i, j \in 1..Len(f.args) : f.args[i] = f.args[j] => i = j

C3_Witness ==
  \E k \in 1..Len(models) :
    /\ Len(models[k].given) >= 2
    /\ Len(models[k].S11.args) = 2 * Len(models[k].given) + 3

\* A call that gives the constructor no user layer: layers omitted (also when
\* a list is bound to incident_angle), None, or an empty list.
ZeroUserLayers ==
  /\ result.op = "MultiLayerModel"
  /\ (result.form = "positional" \/ result.passed = None \/ result.given = <<>>)

\* C4: building a stack with zero user layers ends in an error and returns
\* no model: no model object exists that was built from zero user layers.
C4_ZeroLayersFail ==
  /\ ZeroUserLayers => (result.status = "IndexError" /\ result.model = 0)
  /\ \A k \in 1..Len(models) : Len(models[k].given) >= 1

C4_Witness ==
  /\ ZeroUserLayers
  /\ result.form = "keyword"
  /\ result.passed # None
  /\ result.status = "IndexError"

\* C5: after any sequence of constructions, also of several handed the same
\* list object, every model's layers are exactly one air layer, at position
\* 0, followed by the caller's user layers in their order.
C5_OneAirThenUserLayers ==
  \A k \in 1..Len(models) :
    lists[models[k].layers] = <<models[k].air>> \o models[k].given

SymbolsOf(l) == {l.d, l.ri}

\* C6 as claimed: two distinct Layer objects of one stack never share a
\* symbol, whatever layer_index the caller passed.
C6_NoSharedSymbol ==
  result.op = "MultiLayerModel" =>
    \A k \in 1..Len(lists) : \A i, j \in 1..Len(lists[k]) :
      lists[k][i] # lists[k][j] =>
        SymbolsOf(heap[lists[k][i]]) \cap SymbolsOf(heap[lists[k][j]]) = {}

\* C6 amended: two Layer objects share a symbol exactly when they were
\* created with the same layer_index; Layers of one stack created with
\* different layer_index values have disjoint symbols.
C6_DistinctIndexDistinctSymbols ==
  /\ \A a, b \in 1..Len(heap) :
       (SymbolsOf(heap[a]) \cap SymbolsOf(heap[b]) # {})
         <=> heap[a].layer_index = heap[b].layer_index
  /\ \A k \in 1..Len(lists) : \A i, j \in 1..Len(lists[k]) :
       heap[lists[k][i]].layer_index # heap[lists[k][j]].layer_index =>
         SymbolsOf(heap[lists[k][i]]) \cap SymbolsOf(heap[lists[k][j]]) = {}

C6_Witness ==
  /\ result.op = "MultiLayerModel"
  /\ \E k \in 1..Len(lists) : \E i, j \in 1..Len(lists[k]) :
       /\ lists[k][i] # lists[k][j]
       /\ heap[lists[k][i]].layer_index = heap[lists[k][j]].layer_index
  /\ \E k \in 1..Len(lists) : \E i, j \in 1..Len(lists[k]) :
       heap[lists[k][i]].layer_index # heap[lists[k][j]].layer_index

\* C10: a supplied wavelength array, of any length and values, never makes
\* the construction fail and is what model.wavelength then holds; only an
\* omitted wavelength gives the default [0].
C10_AnyWavelengthAccepted ==
  (/\ result.op = "MultiLayerModel"
   /\ Len(result.given) >= 1
   /\ FreshUserLayers(result.given)) =>
    /\ result.wavelength.given => result.status # "ValueError"
    /\ (result.wavelength.given /\ result.status = "returned")
         => models[result.model].wavelength = result.wavelength.a
    /\ (~result.wavelength.given /\ result.status = "returned")
         => models[result.model].wavelength = <<0>>


\* C7: get_I(L, L) of a layer with itself, at refractive index N # 0, has
\* r = 0 and is the identity scaled by 1/(2N).
C7_SelfInterfaceHalfN ==
  (result.op = "get_I" /\ result.lp = result.lc /\ ~CIsZero(result.p))
    => /\ result.I.r = CInt(0)
       /\ result.I.M = <<CDiv(CInt(1), CMul(CInt(2), result.p)), CInt(0),
                         CInt(0), CDiv(CInt(1), CMul(CInt(2), result.p))>>

\* C7 amended: get_I(L, L) at refractive index N # 0 has r = 0 and is the
\* identity scaled by 1/t, t = 2N(N + N) = 4N^2.
C7_SelfInterfaceQuarterNSquared ==
  (result.op = "get_I" /\ result.lp = result.lc /\ ~CIsZero(result.p))
    => /\ result.I.r = CInt(0)
       /\ result.I.M[1] = CDiv(CInt(1), CMul(CInt(4), CMul(result.p, result.p)))
       /\ result.I.M[4] = result.I.M[1]
       /\ result.I.M[2] = CInt(0)
       /\ result.I.M[3] = CInt(0)

C7_Witness ==
  /\ result.op = "get_I"
  /\ result.lp = result.lc
  /\ result.p = Cx(1, -1, 1)
  /\ result.I.M[1] = Cx(0, 1, 8)

\* The arguments give two adjacent layers refractive indices that sum to 0.
ZeroSumInterface ==
  \E j \in 1..(Len(result.ri) - 1) : result.ri[j] + result.ri[j + 1] = 0

\* C8: evaluating S11..S22 with adjacent refractive indices that sum to zero
\* (scalars or arrays) ends in an explicit error and never returns Inf or NaN.
C8_ZeroSumRaises ==
  (result.op = "S" /\ ZeroSumInterface)
    => \A e \in {result.S11, result.S12, result.S21, result.S22} :
         e.status # "returned"

====
